---- MODULE Spec2Model ----
(***************************************************************************)
(* Model of website/models.py: the save() hooks of the Markdown-carrying   *)
(* models (WebsiteSection, NewsPost, Profile, BlogPost), the shared cache  *)
(* they clear, and the post_save hook that creates a Profile per User.     *)
(*                                                                         *)
(* A save() is split at the statements that touch shared state (the clock, *)
(* the cache, the database); the statements between them only touch the   *)
(* instance the request owns.                                              *)
(***************************************************************************)
EXTENDS Integers, Sequences, FiniteSets, TLC

VARIABLES
    db,       \* the table rows: primary key -> persisted row
    cache,    \* django.core.cache.cache: a set of entries, one per key
    users,    \* the auth User rows: username -> row
    inst,     \* per request: the in-memory model instance save() runs on
    pc,       \* per request: the statement of save() it is at
    now,      \* the wall clock (history: the number of saves begun)
    wseq,     \* history: the number of row writes performed
    nclears,  \* history: the number of cache.clear() calls performed
    swept,    \* history: the keys the last cache.clear() dropped
    hist,     \* history, per request: what the current save was given and did
    rd        \* the page a concurrent reader has built and not yet cached

vars == <<db, cache, users, inst, pc, now, wseq, nclears, swept, hist, rd>>

\* ------------------------------------------------------------------ bounds

\* Saves begun in one behaviour (the clock's last value).
MaxNow == 2
\* Length of a Markdown source, in blocks, for the rendering specification.
MaxLen == 3
\* Users created in one behaviour.
MaxUsers == 1

Savers == {"s1", "s2"}
\* The user the site starts with, and the users that sign up later.
Admin == 0
Usernames == 1..MaxUsers
Emails == {"a@lab", "b@lab"}

\* ------------------------------------------------------- markdown and bleach

\* An HTML string is a flat sequence of nodes: an element with its tag and the
\* names of its attributes, or a run of text (escaped markup included).
Text == [tag |-> "#text", attrs |-> {}]
El(t, a) == [tag |-> t, attrs |-> a]

\* bleach.ALLOWED_TAGS, the baseline the list of line 14 extends.
bleach_ALLOWED_TAGS ==
    {"a", "abbr", "acronym", "b", "blockquote", "code", "em", "i", "li", "ol",
     "strong", "ul"}

allowed_html_tags ==
    bleach_ALLOWED_TAGS \cup
    {"p", "pre", "table", "img", "h1", "h2", "h3", "h4", "h5", "h6", "b", "i",
     "strong", "em", "tt", "br", "blockquote", "code", "ul", "ol", "li", "dd",
     "dt", "a", "tr", "td", "div", "span", "hr"}

allowed_attrs == {"href", "class", "rel", "alt", "class", "src"}

\* A Markdown source is None or a string; a string is a sequence of blocks.
None == [null |-> TRUE, blocks |-> <<>>]
Str(bs) == [null |-> FALSE, blocks |-> bs]

\* The kinds of block a source is made of:
\*   para    a paragraph of text with emphasis
\*   head    "# Title"
\*   image   ![alt](src "title")
\*   fence   a code block, codehilite without Pygments
\*   hilite  a code block, codehilite with Pygments
\*   script  raw <script>alert(1)</script>
\*   link    raw <a href=".." onclick="..">t</a> inside a paragraph
Blocks == {"para", "head", "image", "fence", "hilite", "script", "link"}

\* What markdown.markdown(..., extensions=['codehilite']) makes of one block.
\* Raw HTML passes through Markdown unchanged.
markdown_block(b) ==
    CASE b = "para"   -> <<El("p", {}), Text, El("em", {}), Text>>
      [] b = "head"   -> <<El("h1", {}), Text>>
      [] b = "image"  -> <<El("p", {}), El("img", {"alt", "src", "title"})>>
      [] b = "fence"  -> <<El("pre", {"class"}), El("code", {}), Text>>
      [] b = "hilite" -> <<El("div", {"class"}), El("pre", {}),
                           El("span", {"class"}), Text>>
      [] b = "script" -> <<El("script", {}), Text>>
      [] b = "link"   -> <<El("p", {}), El("a", {"href", "onclick"}), Text>>

\* markdown.markdown(None) raises: Markdown.convert calls source.strip().
markdown_raises(md) == md.null

RECURSIVE markdown_blocks(_)
markdown_blocks(bs) ==
    IF bs = <<>> THEN <<>>
    ELSE markdown_block(Head(bs)) \o markdown_blocks(Tail(bs))

\* markdown.markdown of a string; the empty string gives the empty string.
markdown(md) == markdown_blocks(md.blocks)

\* bleach.clean of one node (strip=False, the default): an element outside
\* the allowed tags is escaped, so that it is text; an allowed element keeps
\* its allowed attributes only.
clean_node(n, tags, attrs) ==
    IF n.tag = "#text" THEN n
    ELSE IF n.tag \in tags THEN El(n.tag, n.attrs \cap attrs)
    ELSE Text

\* bleach.clean with the attributes left as they are.
clean_tags_only(html, tags, attrs) ==
    [i \in 1..Len(html) |->
        IF html[i].tag = "#text" \/ html[i].tag \in tags THEN html[i] ELSE Text]

\* bleach.clean(text, tags, attributes).
clean(html, tags, attrs) ==
    [i \in 1..Len(html) |-> clean_node(html[i], tags, attrs)]

\* Lines 58-63 (and 86-91, 227-231, 262-266): the value save() assigns to the
\* rendered field.
rendered(md) == clean(markdown(md), allowed_html_tags, allowed_attrs)

\* ------------------------------------------------------------------ the rows

\* WebsiteSection and NewsPost declare `modified` (lines 32, 83); Profile and
\* BlogPost declare no such field.
has_modified(kind) == kind \in {"WebsiteSection", "NewsPost"}

\* A row of a model with the `modified` field, and one of a model without
\* (Profile.user, BlogPost.author).
\* began: history, the clock when the save that wrote the row was called.
\* ver:   history, the number of the write that wrote the row.
StampedRow(k, key, title, md) ==
    [kind |-> k, pk |-> key, name |-> title, md |-> md,
     html |-> rendered(md), modified |-> 0, began |-> 0, ver |-> 0]

PlainRow(k, key, title, u, md) ==
    [kind |-> k, pk |-> key, name |-> title, user |-> u, md |-> md,
     html |-> rendered(md), began |-> 0, ver |-> 0]

\* The rows the site starts with: one of each model; the profile is the one
\* create_user_profile made for the first user.
InitDb ==
    <<StampedRow("WebsiteSection", 1, "index", Str(<<"para">>)),
      StampedRow("NewsPost", 2, "news", Str(<<"head">>)),
      PlainRow("BlogPost", 3, "blog", Admin, Str(<<"para">>)),
      PlainRow("Profile", 4, Admin, Admin, Str(<<>>))>>

InitUsers == (Admin :> [username |-> Admin, email |-> ""])

\* What the instance of an idle request holds, and its history.
NoInst == [pk |-> 0]
NoHist == [clears |-> 0, wrote |-> 0, given |-> <<>>]

\* A rendered value a caller may assign to the instance before save().
Forged == <<El("script", {}), Text>>

\* The sources a caller assigns in the specifications with several saves.
SampleSources == {None, Str(<<>>), Str(<<"script", "image">>)}

RECURSIVE SeqsUpTo(_, _)
SeqsUpTo(S, n) ==
    IF n = 0 THEN {<<>>}
    ELSE LET shorter == SeqsUpTo(S, n - 1)
         IN shorter \cup {Append(s, x) : s \in shorter, x \in S}

\* The sources of the rendering specification: every source of up to MaxLen blocks.
AllSources == {None} \cup {Str(bs) : bs \in SeqsUpTo(Blocks, MaxLen)}

\* ---------------------------------------------------------------- the cache

\* cache.clear(): every key is dropped.
cache_clear(c) == {}

\* cache.set(key, page).
cache_set(c, e) == {x \in c : x.key # e.key} \cup {e}

\* A cache holding a page of every row the site starts with.
FullCache ==
    {[key |-> r, html |-> InitDb[r].html, ver |-> 0] : r \in DOMAIN InitDb}

\* ------------------------------------------------------------------- save()

Init ==
    /\ db = InitDb
    /\ cache = {}
    /\ users = InitUsers
    /\ inst = [p \in Savers |-> NoInst]
    /\ pc = [p \in Savers |-> "idle"]
    /\ now = 0
    /\ wseq = 0
    /\ nclears = 0
    /\ swept = {}
    /\ hist = [p \in Savers |-> NoHist]
    /\ rd = {}

\* The caller: loads row r, assigns the Markdown field, possibly assigns the
\* rendered field too, and calls save().
Begin(p, r, md, forge) ==
    /\ pc[p] = "idle"
    /\ now < MaxNow
    /\ r \in DOMAIN db
    /\ now' = now + 1
    /\ inst' = [inst EXCEPT ![p] =
                   [db[r] EXCEPT !.md = md,
                                 !.html = IF forge THEN Forged ELSE @,
                                 !.began = now + 1]]
    /\ hist' = [hist EXCEPT ![p] =
                   [NoHist EXCEPT !.given = IF forge THEN Forged ELSE db[r].html]]
    /\ pc' = [pc EXCEPT ![p] = "render"]
    /\ UNCHANGED <<db, cache, users, wseq, nclears, swept, rd>>

\* Lines 58-63 (86-91, 227-231, 262-266) with the rendered field left as the
\* caller set it.
RenderKeepsGiven(p) ==
    /\ pc[p] = "render"
    /\ IF markdown_raises(inst[p].md)
       THEN pc' = [pc EXCEPT ![p] = "raised"]
       ELSE pc' = [pc EXCEPT ![p] =
                      IF has_modified(inst[p].kind) THEN "stamp" ELSE "clear"]
    /\ UNCHANGED <<db, cache, users, inst, now, wseq, nclears, swept, hist, rd>>

\* Lines 58-63 with the exception of markdown.markdown swallowed: save() goes
\* on with the rendered field as it was.
RenderSwallows(p) ==
    /\ pc[p] = "render"
    /\ inst' = [inst EXCEPT ![p].html =
                   IF markdown_raises(inst[p].md) THEN @ ELSE rendered(inst[p].md)]
    /\ pc' = [pc EXCEPT ![p] =
                 IF has_modified(inst[p].kind) THEN "stamp" ELSE "clear"]
    /\ UNCHANGED <<db, cache, users, now, wseq, nclears, swept, hist, rd>>

\* Lines 58-63 (86-91, 227-231, 262-266): markdown.markdown, then bleach.clean
\* into the rendered field. An exception of markdown.markdown leaves save()
\* at once.
Render(p) ==
    /\ pc[p] = "render"
    /\ IF markdown_raises(inst[p].md)
       THEN /\ pc' = [pc EXCEPT ![p] = "raised"]
            /\ UNCHANGED inst
       ELSE /\ inst' = [inst EXCEPT ![p].html = rendered(inst[p].md)]
            /\ pc' = [pc EXCEPT ![p] =
                         IF has_modified(inst[p].kind) THEN "stamp" ELSE "clear"]
    /\ UNCHANGED <<db, cache, users, now, wseq, nclears, swept, hist, rd>>

\* Line 64 left out.
StampSkipped(p) ==
    /\ pc[p] = "stamp"
    /\ pc' = [pc EXCEPT ![p] = "clear"]
    /\ UNCHANGED <<db, cache, users, inst, now, wseq, nclears, swept, hist, rd>>

\* Line 64 (and 92): self.modified = datetime.datetime.now().
Stamp(p) ==
    /\ pc[p] = "stamp"
    /\ inst' = [inst EXCEPT ![p].modified = now]
    /\ pc' = [pc EXCEPT ![p] = "clear"]
    /\ UNCHANGED <<db, cache, users, now, wseq, nclears, swept, hist, rd>>

\* Line 67 as cache.delete(key of the saved row).
ClearOwnKey(p) ==
    /\ pc[p] = "clear"
    /\ cache' = {e \in cache : e.key # inst[p].pk}
    /\ swept' = {e.key : e \in cache \ cache'}
    /\ nclears' = nclears + 1
    /\ hist' = [hist EXCEPT ![p].clears = @ + 1]
    /\ pc' = [pc EXCEPT ![p] = "write"]
    /\ UNCHANGED <<db, users, inst, now, wseq, rd>>

\* Line 67 (and 95, 233, 268): cache.clear().
Clear(p) ==
    /\ pc[p] = "clear"
    /\ cache' = cache_clear(cache)
    /\ swept' = {e.key : e \in cache}
    /\ nclears' = nclears + 1
    /\ hist' = [hist EXCEPT ![p].clears = @ + 1]
    /\ pc' = [pc EXCEPT ![p] = "write"]
    /\ UNCHANGED <<db, users, inst, now, wseq, rd>>

\* Line 70 as an UPDATE of the rendered column alone.
WriteRenderedOnly(p) ==
    /\ pc[p] = "write"
    /\ wseq' = wseq + 1
    /\ db' = [db EXCEPT ![inst[p].pk].html = inst[p].html,
                        ![inst[p].pk].ver = wseq + 1]
    /\ hist' = [hist EXCEPT ![p].wrote = wseq + 1]
    /\ pc' = [pc EXCEPT ![p] = "done"]
    /\ UNCHANGED <<cache, users, inst, now, nclears, swept, rd>>

\* Line 70 (and 98, 236, 271): super().save(), one UPDATE of the whole row.
Write(p) ==
    /\ pc[p] = "write"
    /\ wseq' = wseq + 1
    /\ db' = [db EXCEPT ![inst[p].pk] = [inst[p] EXCEPT !.ver = wseq + 1]]
    /\ hist' = [hist EXCEPT ![p].wrote = wseq + 1]
    /\ pc' = [pc EXCEPT ![p] = "done"]
    /\ UNCHANGED <<cache, users, inst, now, nclears, swept, rd>>

\* save() has returned or raised; the request ends.
Return(p) ==
    /\ pc[p] \in {"done", "raised"}
    /\ pc' = [pc EXCEPT ![p] = "idle"]
    /\ inst' = [inst EXCEPT ![p] = NoInst]
    /\ hist' = [hist EXCEPT ![p] = NoHist]
    /\ UNCHANGED <<db, cache, users, now, wseq, nclears, swept, rd>>

\* ---------------------------------------------------------------- a reader

\* A page view running beside the saves: it reads the persisted row and
\* builds the page from it ...
ReaderGet(r) ==
    /\ rd = {}
    /\ r \in DOMAIN db
    /\ rd' = {[key |-> r, html |-> db[r].html, ver |-> db[r].ver]}
    /\ UNCHANGED <<db, cache, users, inst, pc, now, wseq, nclears, swept, hist>>

\* ... and stores the page in the shared cache.
ReaderSet ==
    /\ rd # {}
    /\ cache' = cache_set(cache, CHOOSE e \in rd : TRUE)
    /\ rd' = {}
    /\ UNCHANGED <<db, users, inst, pc, now, wseq, nclears, swept, hist>>

\* ------------------------------------------------------- create_user_profile

\* The profiles of user u (Profile.user is a OneToOneField).
profiles_of(d, u) == {r \in DOMAIN d : d[r].kind = "Profile" /\ d[r].user = u}

\* Profile.objects.create(...) of line 245, then instance.profile.save() of
\* line 247: Profile.save() runs twice (render, cache.clear(), INSERT; then
\* render, cache.clear(), UPDATE). The INSERT raises IntegrityError when the
\* user has a profile already.
create_and_save_profile(u) ==
    IF profiles_of(db, u) = {}
    THEN LET key == Len(db) + 1
             made == PlainRow("Profile", key, users'[u].username, u, Str(<<>>))
             again == [made EXCEPT !.html = rendered(made.md), !.ver = wseq + 2]
         IN /\ db' = Append(db, again)
            /\ cache' = cache_clear(cache_clear(cache))
            /\ swept' = {}
            /\ wseq' = wseq + 2
            /\ nclears' = nclears + 2
    ELSE UNCHANGED <<db, cache, swept, wseq, nclears>>

\* Lines 243-247 with the test of `created` negated.
create_user_profile_negated(u, created) ==
    IF ~created
    THEN create_and_save_profile(u)
    ELSE UNCHANGED <<db, cache, swept, wseq, nclears>>

\* Lines 242-247, the post_save receiver of User.
create_user_profile(u, created) ==
    IF created
    THEN create_and_save_profile(u)
    ELSE UNCHANGED <<db, cache, swept, wseq, nclears>>

\* User.objects.create_user(username): the first save of a User.
CreateUser(u) ==
    /\ u \notin DOMAIN users
    /\ users' = (u :> [username |-> u, email |-> ""]) @@ users
    /\ create_user_profile(u, TRUE)
    /\ UNCHANGED <<inst, pc, now, hist, rd>>

\* A later save of an existing User.
SaveUser(u, e) ==
    /\ u \in DOMAIN users
    /\ users[u].email # e
    /\ users' = [users EXCEPT ![u].email = e]
    /\ create_user_profile(u, FALSE)
    /\ UNCHANGED <<inst, pc, now, hist, rd>>

\* ------------------------------------------------------- the specifications

\* Two requests saving, one after the other or at once.
Next ==
    \/ \E p \in Savers, r \in DOMAIN db, md \in SampleSources, f \in BOOLEAN :
          Begin(p, r, md, f)
    \/ \E p \in Savers : Render(p)
    \/ \E p \in Savers : Stamp(p)
    \/ \E p \in Savers : Clear(p)
    \/ \E p \in Savers : Write(p)
    \/ \E p \in Savers : Return(p)

Spec == Init /\ [][Next]_vars

\* The first save of a behaviour, its source drawn from S.
FirstSave(S) ==
    /\ now = 0
    /\ \E r \in DOMAIN db, md \in S, f \in BOOLEAN : Begin("s1", r, md, f)

\* One request saving once beside a reader that fills the cache.
NextCache ==
    \/ FirstSave(SampleSources)
    \/ Render("s1")
    \/ Stamp("s1")
    \/ Clear("s1")
    \/ Write("s1")
    \/ \E r \in DOMAIN db : ReaderGet(r)
    \/ ReaderSet

SpecCache == Init /\ [][NextCache]_vars

\* Users signing up and being saved, beside one request saving a row.
NextUsers ==
    \/ FirstSave(SampleSources)
    \/ Render("s1")
    \/ Stamp("s1")
    \/ Clear("s1")
    \/ Write("s1")
    \/ Return("s1")
    \/ \E u \in Usernames : CreateUser(u)
    \/ \E u \in DOMAIN users, e \in Emails : SaveUser(u, e)

SpecUsers == Init /\ [][NextUsers]_vars

\* Two requests, each saving once, from a cache that holds every page.
InitPair ==
    /\ db = InitDb
    /\ cache = FullCache
    /\ users = InitUsers
    /\ inst = [p \in Savers |-> NoInst]
    /\ pc = [p \in Savers |-> "idle"]
    /\ now = 0
    /\ wseq = 0
    /\ nclears = 0
    /\ swept = {}
    /\ hist = [p \in Savers |-> NoHist]
    /\ rd = {}

NextPair ==
    \/ \E p \in Savers, r \in DOMAIN db, md \in SampleSources, f \in BOOLEAN :
          Begin(p, r, md, f)
    \/ \E p \in Savers : Render(p)
    \/ \E p \in Savers : Stamp(p)
    \/ \E p \in Savers : Clear(p)
    \/ \E p \in Savers : Write(p)

SpecPair == InitPair /\ [][NextPair]_vars

\* One save of one row, its source drawn from every source of up to MaxLen blocks.
NextRender ==
    \/ FirstSave(AllSources)
    \/ Render("s1")
    \/ Stamp("s1")
    \/ Clear("s1")
    \/ Write("s1")

SpecRender == Init /\ [][NextRender]_vars

\* ------------------------------------------------- a save as one step

\* save() run alone on instance i, the clock reading t: the state it leaves.
save_fn(st, i, t) ==
    IF markdown_raises(i.md) THEN st
    ELSE LET r0 == [i EXCEPT !.html = rendered(i.md), !.ver = st.wseq + 1]
             r1 == IF has_modified(i.kind) THEN [r0 EXCEPT !.modified = t] ELSE r0
         IN [db |-> [st.db EXCEPT ![i.pk] = r1],
             cache |-> cache_clear(st.cache),
             wseq |-> st.wseq + 1]

\* The clock reading the save of request p made (none in a model without
\* `modified`, and none when markdown.markdown raised).
stamp_of(p) ==
    IF pc[p] = "done" /\ has_modified(inst[p].kind) THEN inst[p].modified ELSE 0

\* The two saves of the pair run one after the other, o[1] first.
serial(o) ==
    save_fn(save_fn([db |-> InitDb, cache |-> FullCache, wseq |-> 0],
                    inst[o[1]], stamp_of(o[1])),
            inst[o[2]], stamp_of(o[2]))

PairDone == \A p \in Savers : pc[p] \in {"done", "raised"}

\* ------------------------------------------------------------------ claims

\* C1: after any sequence of saves, every persisted rendered field is
\* bleach.clean(markdown(persisted Markdown field)), whatever the caller had
\* assigned to the rendered field before save().
C1_RenderedIsRenderOfSource ==
    \A r \in DOMAIN db : db[r].html = rendered(db[r].md)

\* A second write of a row, by a save whose caller had forged the rendered
\* field, and the row does not hold the forged value.
C1_Witness ==
    \E p \in Savers :
        /\ pc[p] = "done"
        /\ hist[p].given = Forged
        /\ hist[p].wrote = 2
        /\ db[inst[p].pk].ver = hist[p].wrote
        /\ db[inst[p].pk].html # Forged

\* C2 as claimed: a save writes the row with the rendered field it computed,
\* and its cache.clear() comes only after its row write.
C2_ClearOnlyAfterWrite ==
    \A p \in Savers :
        /\ hist[p].wrote > 0 => inst[p].html = rendered(inst[p].md)
        /\ hist[p].clears > 0 => hist[p].wrote > 0

\* C3: a save that succeeded has called cache.clear() exactly once, and every
\* cache.clear() leaves the cache with no entry for any key.
C3_OneFullClearPerSave ==
    /\ [](\A p \in Savers : pc[p] = "done" => hist[p].clears = 1)
    /\ [][nclears' # nclears => cache' = {}]_vars

\* A finished save whose one clear dropped the page of another row.
C3_Witness ==
    /\ pc["s1"] = "done"
    /\ hist["s1"].clears = 1
    /\ \E k \in swept : k # inst["s1"].pk

\* C4: a save whose render raised has written no row and cleared no cache, its
\* instance's rendered field is as the caller left it, and no row holds a
\* source without the rendered field that corresponds to it.
C4_RenderFailureAborts ==
    /\ \A p \in Savers :
          pc[p] = "raised" =>
              /\ hist[p].wrote = 0
              /\ hist[p].clears = 0
              /\ inst[p].html = hist[p].given
    /\ \A r \in DOMAIN db :
          /\ ~markdown_raises(db[r].md)
          /\ db[r].html = rendered(db[r].md)

\* A save of a None source has raised and the row is the one the site
\* started with.
C4_Witness ==
    \E p \in Savers :
        /\ pc[p] = "raised"
        /\ inst[p].md = None
        /\ db[inst[p].pk] = InitDb[inst[p].pk]

\* C5 as claimed: a save of an empty or None source does not raise, and when
\* it is done the rendered field is the empty string.
C5_NullOrEmptySaves ==
    \A p \in Savers :
        (pc[p] # "idle" /\ inst[p].md \in {None, Str(<<>>)}) =>
            /\ pc[p] # "raised"
            /\ pc[p] = "done" => inst[p].html = <<>>

C7_OnlyAllowedMarkup ==
    \A r \in DOMAIN db :
        \A i \in 1..Len(db[r].html) :
            \/ db[r].html[i].tag = "#text"
            \/ /\ db[r].html[i].tag \in allowed_html_tags
               /\ db[r].html[i].attrs \subseteq {"href", "class", "rel", "alt", "src"}

\* A Profile saved with a raw <script>, an image with a title and a link with
\* an onclick.
C7_Witness ==
    \E r \in DOMAIN db :
        /\ db[r].kind = "Profile"
        /\ db[r].ver = 1
        /\ db[r].md = Str(<<"script", "image", "link">>)

\* C8: when two concurrent saves have ended, the rows and the cache are those
\* of the two saves run one after the other in some order, every row's
\* rendered field is the render of its source, and the cache two clears leave
\* is the cache one clear leaves.
C8_PairIsSerial ==
    PairDone =>
        /\ \E o \in {<<"s1", "s2">>, <<"s2", "s1">>} :
              /\ serial(o).db = db
              /\ serial(o).cache = cache
        /\ \A r \in DOMAIN db : db[r].html = rendered(db[r].md)
        /\ nclears = 2 => cache = cache_clear(FullCache)

\* Two saves of the same row that overlapped: the one called first wrote last.
C8_Witness ==
    /\ pc["s1"] = "done"
    /\ pc["s2"] = "done"
    /\ inst["s1"].pk = inst["s2"].pk
    /\ inst["s1"].md # inst["s2"].md
    /\ inst["s1"].began < inst["s2"].began
    /\ hist["s1"].wrote > hist["s2"].wrote

\* C9 as claimed: once a save is done, the cache holds no page of the saved
\* row built from a version of the row older than the one the save wrote.
C9_NoStalePageAfterSave ==
    \A p \in Savers :
        pc[p] = "done" =>
            \A e \in cache : e.key = inst[p].pk => e.ver >= hist[p].wrote

\* C10: every user has exactly one Profile; the save that creates a user
\* makes a new Profile named after the user, with empty Markdown and the
\* rendered field Profile.save computed for it (two saves, two clears); the
\* save of an existing user writes no row and clears no cache.
C10_OneProfilePerUser ==
    /\ [](\A u \in DOMAIN users : Cardinality(profiles_of(db, u)) = 1)
    /\ [][\A u \in DOMAIN users' \ DOMAIN users :
             \E r \in profiles_of(db', u) :
                 /\ r \notin DOMAIN db
                 /\ db'[r].name = users'[u].username
                 /\ db'[r].md = Str(<<>>)
                 /\ db'[r].html = <<>>
                 /\ nclears' = nclears + 2]_vars
    /\ [][(users' # users /\ DOMAIN users' = DOMAIN users) =>
             (db' = db /\ nclears' = nclears /\ wseq' = wseq)]_vars

\* A user who signed up and was saved again later has one Profile.
C10_Witness ==
    /\ 1 \in DOMAIN users
    /\ users[1].email # ""
    /\ Cardinality(profiles_of(db, 1)) = 1

====
